---------------------------- MODULE Spec2Model ----------------------------
(***************************************************************************)
(* A model of tyssue's sheet vertex model (SheetModel.dimentionalize,      *)
(* compute_energy, compute_gradient), of the History recorder              *)
(* (History.record / History.retrieve) and of the two sheet topology       *)
(* operators (type1_transition, cell_division).                            *)
(*                                                                         *)
(* Tables (pandas DataFrames) are functions from a row index 1..N to a     *)
(* record of columns.  Floating point values are modelled by exact         *)
(* rationals [num, den]; vectors have one component (the code treats       *)
(* every coordinate alike, _to_3d only broadcasts).                        *)
(***************************************************************************)
EXTENDS Integers, Sequences, FiniteSets, TLC

VARIABLES
    sheet,      \* the Sheet handed to compute_energy / compute_gradient
    pc,         \* "setup", or the name of the call that returned
    out,        \* what the call returned (or raised)
    mod_specs,  \* the argument of dimentionalize
    dim_out,    \* what dimentionalize returned (or raised)
    history,    \* the History object and the datasets of the sheet it records
    record_log, \* per time id, the datasets each record call was given
    n_updates,  \* how many times the sheet's datasets were rewritten
    retrieved,  \* the History.retrieve call just made: argument and result
    mesh,       \* the sheet's connectivity, as the topology operators see it
    topo_out,   \* the topology call just made: arguments, outcome, mesh before
    n_topo      \* how many topology operations went through

model_vars == <<sheet, pc, out, mod_specs, dim_out>>

history_vars == <<history, record_log, n_updates, retrieved>>

topology_vars == <<mesh, topo_out, n_topo>>

vars ==
    <<sheet, pc, out, mod_specs, dim_out,
      history, record_log, n_updates, retrieved, mesh, topo_out, n_topo>>

-----------------------------------------------------------------------------
(* Exact arithmetic standing for Python's float arithmetic.                *)

Q(n, d) == [num |-> n, den |-> d]

QInt(n) == Q(n, 1)

QAdd(a, b) ==
    IF a.den = b.den THEN Q(a.num + b.num, a.den)
    ELSE Q(a.num * b.den + b.num * a.den, a.den * b.den)

QScale(k, a) == Q(k * a.num, a.den)

\* a / n for an integer n (the norm factors are non-zero here)
QDiv(a, n) == Q(a.num, a.den * n)

QEq(a, b) == a.num * b.den = b.num * a.den

RECURSIVE QSumSeq(_)
\* pandas Series.sum(): the sum of the rows, 0 for an empty series
QSumSeq(s) == IF s = <<>> THEN QInt(0) ELSE QAdd(s[1], QSumSeq(Tail(s)))

RECURSIVE IntSumSeq(_)
IntSumSeq(s) == IF s = <<>> THEN 0 ELSE s[1] + IntSumSeq(Tail(s))

Idx(n) == [i \in 1..n |-> i]


-----------------------------------------------------------------------------
(* The sheet: two triangular faces sharing the edge between vertices 1     *)
(* and 3.  Every boundary segment of a face is one directed half-edge      *)
(* (srce, trgt, face); border segments have no opposite half-edge.         *)

FixtureEdges ==
    << <<1, 2, 1>>, <<2, 3, 1>>, <<3, 1, 1>>,
       <<1, 3, 2>>, <<3, 4, 2>>, <<4, 1, 2>> >>

FixtureNv == Cardinality({FixtureEdges[e][1] : e \in DOMAIN FixtureEdges})

FixtureNf == Cardinality({FixtureEdges[e][3] : e \in DOMAIN FixtureEdges})

\* The values a column may take.  length_grad, area_grad and height_grad
\* belong to the geometry package; their results enter as the columns
\* grad_l (per half-edge), grad_a_srce, grad_a_trgt (per half-edge) and
\* grad_h (per vertex).
EdgeDom ==
    [length |-> {1, 2}, line_tension |-> {1, 2}, sub_area |-> {1, 2},
     is_anchor |-> {1, 0}, anchor_elasticity |-> {1, 2},
     grad_l |-> {1, -1}, grad_a_srce |-> {1, 2}, grad_a_trgt |-> {1, 2}]

FaceDom ==
    [vol |-> {2, 1}, vol_elasticity |-> {1, 2},
     prefered_vol |-> {1, 2}, contractility |-> {1, 2},
     perimeter |-> {3, 4}]

VertDom ==
    [is_active |-> {1, 0}, height |-> {1, 2}, grad_h |-> {1, 2}]

\* The optional columns of the half-edge table.
AnchorCols == {"is_anchor", "anchor_elasticity"}

\* (nrj_norm_factor, grad_norm_factor) as dimentionalize derives them for
\* (Kv, A0, h0) = (1, 1, 1) and (1, 4, 1).
SettingsChoices ==
    { [nrj_norm_factor |-> 1, grad_norm_factor |-> 1],
      [nrj_norm_factor |-> 16, grad_norm_factor |-> 8] }

BaseEdge(e) ==
    [srce |-> FixtureEdges[e][1], trgt |-> FixtureEdges[e][2],
     face |-> FixtureEdges[e][3],
     length |-> 1, line_tension |-> 1, sub_area |-> 1,
     is_anchor |-> 1, anchor_elasticity |-> 1,
     grad_l |-> 1, grad_a_srce |-> 1, grad_a_trgt |-> 1]

BaseFace(f, alive) ==
    [is_alive |-> alive[f], vol |-> 2, vol_elasticity |-> 1, prefered_vol |-> 1,
     contractility |-> 1, perimeter |-> 3]

BaseVert(v) == [is_active |-> 1, height |-> 1, grad_h |-> 1]

BaseSheet(cols, settings, alive) ==
    [vert_df |-> [v \in 1..FixtureNv |-> BaseVert(v)],
     edge_df |-> [e \in 1..Len(FixtureEdges) |-> BaseEdge(e)],
     face_df |-> [f \in 1..FixtureNf |-> BaseFace(f, alive)],
     edge_cols |-> cols,
     settings |-> settings]

Nv(s) == Len(s.vert_df)
Ne(s) == Len(s.edge_df)
Nf(s) == Len(s.face_df)

\* How many cells of the sheet differ from the fixture's (is_alive, set at
\* construction, apart).
NEdits(s) ==
    Cardinality({<<e, c>> \in (1..Ne(s)) \X DOMAIN EdgeDom :
                    s.edge_df[e][c] # BaseEdge(e)[c]})
  + Cardinality({<<f, c>> \in (1..Nf(s)) \X DOMAIN FaceDom :
                    s.face_df[f][c] # BaseFace(f, [g \in 1..Nf(s) |-> 1])[c]})
  + Cardinality({<<v, c>> \in (1..Nv(s)) \X DOMAIN VertDom :
                    s.vert_df[v][c] # BaseVert(v)[c]})

MaxEdits == 1

-----------------------------------------------------------------------------
(* Sheet primitives used by the model (tyssue.core.sheet).                 *)

\* sheet.upcast_face(col): the owning face's value on every half-edge
upcast_face(s, col) == [e \in 1..Ne(s) |-> col[s.edge_df[e].face]]

\* sheet.upcast_srce(col): the source vertex's value on every half-edge
upcast_srce(s, col) == [e \in 1..Ne(s) |-> col[s.edge_df[e].srce]]

\* sheet.sum_srce(col): group the half-edges by source vertex and sum
sum_srce(s, col) ==
    [v \in 1..Nv(s) |->
        IntSumSeq([k \in 1..Ne(s) |->
                      IF s.edge_df[k].srce = v THEN col[k] ELSE 0])]

\* sheet.sum_trgt(col): group the half-edges by target vertex and sum
sum_trgt(s, col) ==
    [v \in 1..Nv(s) |->
        IntSumSeq([k \in 1..Ne(s) |->
                      IF s.edge_df[k].trgt = v THEN col[k] ELSE 0])]

\* effectors.elastic_energy: 0.5 * K * (V - V0)^2 for one row
elastic_energy(row) ==
    Q(row.vol_elasticity * (row.vol - row.prefered_vol)
                         * (row.vol - row.prefered_vol), 2)

\* effectors.elastic_force: K * (V - V0) for one row
elastic_force(row) == row.vol_elasticity * (row.vol - row.prefered_vol)

-----------------------------------------------------------------------------
(* SheetModel.compute_energy                                               *)

Raised(what) == [kind |-> "error", what |-> what]

Series(rows) == [kind |-> "series", rows |-> rows]

\* sheet.face_df[sheet.face_df.is_alive == 1]: the rows kept, in order
live_face_idx(s) ==
    SelectSeq(Idx(Nf(s)), LAMBDA f : s.face_df[f].is_alive = 1)

\* Mutant of live_edge_idx: the half-edges of dead faces are kept.
live_edge_idx_unfiltered(s) == Idx(Ne(s))

\* sheet.edge_df[upcast_alive == 1]: the rows kept, in order
live_edge_idx(s) ==
    LET upcast_alive ==
            upcast_face(s, [f \in 1..Nf(s) |-> s.face_df[f].is_alive])
    IN  SelectSeq(Idx(Ne(s)), LAMBDA e : upcast_alive[e] = 1)

\* live_edge_df.eval('line_tension * length / 2')
E_t(s) ==
    LET li == live_edge_idx(s)
    IN  [k \in 1..Len(li) |->
            Q(s.edge_df[li[k]].line_tension * s.edge_df[li[k]].length, 2)]

E_v(s) ==
    LET lf == live_face_idx(s)
    IN  [k \in 1..Len(lf) |-> elastic_energy(s.face_df[lf[k]])]

\* live_face_df.eval('0.5 * contractility * perimeter ** 2')
E_c(s) ==
    LET lf == live_face_idx(s)
    IN  [k \in 1..Len(lf) |->
            Q(s.face_df[lf[k]].contractility
              * s.face_df[lf[k]].perimeter * s.face_df[lf[k]].perimeter, 2)]

\* sheet.edge_df.eval('anchor_elasticity * length**2 * is_anchor / 2'),
\* over every half-edge of the table
E_a(s) ==
    [e \in 1..Ne(s) |->
        Q(s.edge_df[e].anchor_elasticity
          * s.edge_df[e].length * s.edge_df[e].length
          * s.edge_df[e].is_anchor, 2)]

\* The tuple of energies: the anchor term joins when the half-edge table
\* has a column is_anchor.
energies(s) ==
    IF "is_anchor" \in s.edge_cols
    THEN <<E_t(s), E_v(s), E_c(s), E_a(s)>>
    ELSE <<E_t(s), E_v(s), E_c(s)>>

\* eval of the anchor expression fails on a column the table lacks
AnchorEvalFails(s) ==
    "is_anchor" \in s.edge_cols /\ ~(AnchorCols \subseteq s.edge_cols)

\* Mutant of compute_energy: full_output returns each term's sum.
compute_energy_summed(s, full_output) ==
    IF AnchorEvalFails(s)
    THEN Raised("anchor_elasticity")
    ELSE LET nrj_norm_factor == s.settings.nrj_norm_factor
             en == energies(s)
         IN  IF full_output
             THEN [kind |-> "components",
                   terms |-> [i \in 1..Len(en) |->
                                Series(<<QDiv(QSumSeq(en[i]),
                                              nrj_norm_factor)>>)]]
             ELSE [kind |-> "scalar",
                   q |-> QDiv(QSumSeq([i \in 1..Len(en) |-> QSumSeq(en[i])]),
                              nrj_norm_factor)]

compute_energy(s, full_output) ==
    IF AnchorEvalFails(s)
    THEN Raised("anchor_elasticity")
    ELSE LET nrj_norm_factor == s.settings.nrj_norm_factor
             en == energies(s)
         IN  IF full_output
             THEN [kind |-> "components",
                   terms |-> [i \in 1..Len(en) |->
                                Series([k \in 1..Len(en[i]) |->
                                          QDiv(en[i][k], nrj_norm_factor)])]]
             ELSE [kind |-> "scalar",
                   q |-> QDiv(QSumSeq([i \in 1..Len(en) |-> QSumSeq(en[i])]),
                              nrj_norm_factor)]

-----------------------------------------------------------------------------
(* SheetModel.compute_gradient                                             *)

\* base_gradients.length_grad(sheet): one value per half-edge
length_grad(s) == [e \in 1..Ne(s) |-> s.edge_df[e].grad_l]

\* PlanarModel.tension_grad: length-gradient * line_tension
tension_grad(s, grad_lij) ==
    [e \in 1..Ne(s) |-> grad_lij[e] * s.edge_df[e].line_tension]

\* PlanarModel.contractile_grad: length-gradient * (contractility *
\* perimeter of the owning face)
contractile_grad(s, grad_lij) ==
    LET gamma_L == upcast_face(s, [f \in 1..Nf(s) |->
                       s.face_df[f].contractility * s.face_df[f].perimeter])
    IN  [e \in 1..Ne(s) |-> grad_lij[e] * gamma_L[e]]

\* SheetModel.elastic_grad: the pair (grad_v_srce, grad_v_trgt)
elastic_grad(s) ==
    LET kv_v0_ == [f \in 1..Nf(s) |->
                      elastic_force(s.face_df[f]) * s.face_df[f].is_alive]
        kv_v0  == upcast_face(s, kv_v0_)
        edge_h == upcast_srce(s, [v \in 1..Nv(s) |-> s.vert_df[v].height])
        area   == [e \in 1..Ne(s) |-> s.edge_df[e].sub_area]
        grad_a_srce == [e \in 1..Ne(s) |-> s.edge_df[e].grad_a_srce]
        grad_a_trgt == [e \in 1..Ne(s) |-> s.edge_df[e].grad_a_trgt]
        grad_h == upcast_srce(s, [v \in 1..Nv(s) |-> s.vert_df[v].grad_h])
    IN  << [e \in 1..Ne(s) |->
               kv_v0[e] * (edge_h[e] * grad_a_srce[e] + area[e] * grad_h[e])],
           [e \in 1..Ne(s) |-> kv_v0[e] * (edge_h[e] * grad_a_trgt[e])] >>

\* SheetModel.anchor_grad
anchor_grad(s, grad_lij) ==
    [e \in 1..Ne(s) |->
        grad_lij[e] * (s.edge_df[e].anchor_elasticity
                       * s.edge_df[e].length * s.edge_df[e].is_anchor)]

\* The factor compute_gradient divides by.
gradient_norm_factor(s) == s.settings.nrj_norm_factor

\* The tension term on each vertex, before the mask and the normalisation.
tension_on_vertices(s, grad_t) ==
    LET as_srce == sum_srce(s, grad_t)
        as_trgt == sum_trgt(s, grad_t)
    IN  [v \in 1..Nv(s) |-> Q(as_srce[v] - as_trgt[v], 2)]

\* Mutant of contractile_on_vertices: the target side is added.
contractile_on_vertices_added(s, grad_c) ==
    LET as_srce == sum_srce(s, grad_c)
        as_trgt == sum_trgt(s, grad_c)
    IN  [v \in 1..Nv(s) |-> as_srce[v] + as_trgt[v]]

\* The contractile term on each vertex.
contractile_on_vertices(s, grad_c) ==
    LET as_srce == sum_srce(s, grad_c)
        as_trgt == sum_trgt(s, grad_c)
    IN  [v \in 1..Nv(s) |-> as_srce[v] - as_trgt[v]]

\* The volumetric elastic term on each vertex.
elastic_on_vertices(s, grad_v_srce, grad_v_trgt) ==
    LET as_srce == sum_srce(s, grad_v_srce)
        as_trgt == sum_trgt(s, grad_v_trgt)
    IN  [v \in 1..Nv(s) |-> as_srce[v] + as_trgt[v]]

\* The anchor term on each vertex.
anchor_on_vertices(s, grad_a) == sum_srce(s, grad_a)

\* grad_i: the sum of the terms on each vertex.
grad_i(s) ==
    LET grad_lij == length_grad(s)
        grad_v == elastic_grad(s)
        on_t == tension_on_vertices(s, tension_grad(s, grad_lij))
        on_c == contractile_on_vertices(s, contractile_grad(s, grad_lij))
        on_v == elastic_on_vertices(s, grad_v[1], grad_v[2])
        on_a == anchor_on_vertices(s, anchor_grad(s, grad_lij))
    IN  [v \in 1..Nv(s) |->
            IF "is_anchor" \in s.edge_cols
            THEN QAdd(on_t[v], QInt(on_c[v] + on_v[v] + on_a[v]))
            ELSE QAdd(on_t[v], QInt(on_c[v] + on_v[v]))]

compute_gradient(s, components) ==
    IF AnchorEvalFails(s)
    THEN Raised("anchor_elasticity")
    ELSE LET norm_factor == gradient_norm_factor(s)
             grad_lij == length_grad(s)
             grad_t == tension_grad(s, grad_lij)
             grad_c == contractile_grad(s, grad_lij)
             grad_v == elastic_grad(s)
             grads == <<grad_t, grad_c, grad_v[1], grad_v[2]>>
             gi == grad_i(s)
         IN  IF components
             THEN [kind |-> "components",
                   terms |-> IF "is_anchor" \in s.edge_cols
                             THEN Append(grads, anchor_grad(s, grad_lij))
                             ELSE grads]
             ELSE [kind |-> "vertices",
                   rows |-> [v \in 1..Nv(s) |->
                               QDiv(QScale(s.vert_df[v].is_active, gi[v]),
                                    norm_factor)]]

-----------------------------------------------------------------------------
(* The energy model's state machine: a sheet is set up (its columns are    *)
(* written by the loader, the geometry update and the driver), then one    *)
(* of the model's functions is called on it.                               *)

NoResult == [kind |-> "none"]

NoSpecs == [kind |-> "none"]

\* No topology operator is at work in this state machine.
NoTopology ==
    /\ mesh = [kind |-> "none"]
    /\ topo_out = NoResult
    /\ n_topo = 0

\* No History is under construction in this state machine.
NoHistory ==
    /\ history = [kind |-> "none"]
    /\ record_log = << >>
    /\ n_updates = 0
    /\ retrieved = NoResult

InitModel ==
    /\ \E cols \in SUBSET AnchorCols : \E st \in SettingsChoices :
           \E alive \in [1..FixtureNf -> {0, 1}] :
               sheet = BaseSheet(cols, st, alive)
    /\ pc = "setup"
    /\ out = NoResult
    /\ mod_specs = NoSpecs
    /\ dim_out = NoResult
    /\ NoHistory
    /\ NoTopology

\* A column of the half-edge table is written.
SetEdge(e, col, val) ==
    /\ pc = "setup"
    /\ col \in AnchorCols => col \in sheet.edge_cols
    /\ sheet.edge_df[e][col] # val
    /\ sheet' = [sheet EXCEPT !.edge_df[e][col] = val]
    /\ NEdits(sheet') <= MaxEdits
    /\ UNCHANGED <<pc, out, mod_specs, dim_out, history_vars, topology_vars>>

\* A column of the face table is written.
SetFace(f, col, val) ==
    /\ pc = "setup"
    /\ sheet.face_df[f][col] # val
    /\ sheet' = [sheet EXCEPT !.face_df[f][col] = val]
    /\ NEdits(sheet') <= MaxEdits
    /\ UNCHANGED <<pc, out, mod_specs, dim_out, history_vars, topology_vars>>

\* A column of the vertex table is written.
SetVert(v, col, val) ==
    /\ pc = "setup"
    /\ sheet.vert_df[v][col] # val
    /\ sheet' = [sheet EXCEPT !.vert_df[v][col] = val]
    /\ NEdits(sheet') <= MaxEdits
    /\ UNCHANGED <<pc, out, mod_specs, dim_out, history_vars, topology_vars>>

ComputeEnergy(full_output) ==
    /\ pc = "setup"
    /\ out' = compute_energy(sheet, full_output)
    /\ pc' = IF full_output THEN "energy_full" ELSE "energy"
    /\ UNCHANGED <<sheet, mod_specs, dim_out, history_vars, topology_vars>>

ComputeGradient(components) ==
    /\ pc = "setup"
    /\ out' = compute_gradient(sheet, components)
    /\ pc' = IF components THEN "gradient_components" ELSE "gradient"
    /\ UNCHANGED <<sheet, mod_specs, dim_out, history_vars, topology_vars>>

NextModel ==
    \/ \E e \in 1..Ne(sheet) : \E col \in DOMAIN EdgeDom :
           \E val \in EdgeDom[col] : SetEdge(e, col, val)
    \/ \E f \in 1..Nf(sheet) : \E col \in DOMAIN FaceDom :
           \E val \in FaceDom[col] : SetFace(f, col, val)
    \/ \E v \in 1..Nv(sheet) : \E col \in DOMAIN VertDom :
           \E val \in VertDom[col] : SetVert(v, col, val)
    \/ \E full_output \in BOOLEAN : ComputeEnergy(full_output)
    \/ \E components \in BOOLEAN : ComputeGradient(components)

Spec == InitModel /\ [][NextModel]_vars

-----------------------------------------------------------------------------
(* Properties of the energy model.                                         *)

RECURSIVE SetSum(_, _)
\* The sum of f over the finite set S.
SetSum(S, f) ==
    IF S = {} THEN 0
    ELSE LET x == CHOOSE y \in S : TRUE IN f[x] + SetSum(S \ {x}, f)

EdgesFrom(s, v) == {e \in 1..Ne(s) : s.edge_df[e].srce = v}
EdgesTo(s, v) == {e \in 1..Ne(s) : s.edge_df[e].trgt = v}

\* The per-half-edge terms, written from their formulas.
TensionTerm(s) ==
    [e \in 1..Ne(s) |-> s.edge_df[e].grad_l * s.edge_df[e].line_tension]

ContractileTerm(s) ==
    [e \in 1..Ne(s) |->
        s.edge_df[e].grad_l * s.face_df[s.edge_df[e].face].contractility
                            * s.face_df[s.edge_df[e].face].perimeter]

AnchorTerm(s) ==
    [e \in 1..Ne(s) |->
        IF "is_anchor" \in s.edge_cols
        THEN s.edge_df[e].grad_l * s.edge_df[e].anchor_elasticity
                                 * s.edge_df[e].length * s.edge_df[e].is_anchor
        ELSE 0]

ElasticOn(s, v) ==
    LET gv == elastic_grad(s)
    IN  SetSum(EdgesFrom(s, v), gv[1]) + SetSum(EdgesTo(s, v), gv[2])

GradientReturned == pc = "gradient" /\ out.kind = "vertices"

\* C3 (as claimed): in default mode every vertex receives the aggregated
\* gradient times its is_active flag, divided by grad_norm_factor.
C3_DividedByGradNormFactor ==
    GradientReturned =>
        \A v \in 1..Nv(sheet) :
            QEq(out.rows[v],
                QDiv(QScale(sheet.vert_df[v].is_active, grad_i(sheet)[v]),
                     sheet.settings.grad_norm_factor))

Called == pc \in {"energy", "energy_full", "gradient", "gradient_components"}

WithoutAnchorColumns(s) == [s EXCEPT !.edge_cols = {}]

\* C7 (as claimed): when any of the anchor columns is missing from the
\* half-edge table, compute_energy and compute_gradient complete and return
\* the result without the anchor term.
C7_MissingAnchorColumnsNeverFail ==
    (Called /\ ~(AnchorCols \subseteq sheet.edge_cols)) =>
        /\ out.kind # "error"
        /\ pc = "energy" =>
              out = compute_energy(WithoutAnchorColumns(sheet), FALSE)
        /\ pc = "energy_full" =>
              out = compute_energy(WithoutAnchorColumns(sheet), TRUE)
        /\ pc = "gradient" =>
              out = compute_gradient(WithoutAnchorColumns(sheet), FALSE)
        /\ pc = "gradient_components" =>
              out = compute_gradient(WithoutAnchorColumns(sheet), TRUE)

LiveFaces(s) == {f \in 1..Nf(s) : s.face_df[f].is_alive = 1}
LiveEdges(s) == {e \in 1..Ne(s) : s.edge_df[e].face \in LiveFaces(s)}

\* The k-th smallest element of a set of row indices.
NthOf(S, k) == CHOOSE x \in S : Cardinality({y \in S : y < x}) = k - 1

\* Twice the energy of one row of each term, written from its formula.
TwiceTension(s, e) == s.edge_df[e].line_tension * s.edge_df[e].length
TwiceElastic(s, f) ==
    s.face_df[f].vol_elasticity
    * (s.face_df[f].vol - s.face_df[f].prefered_vol)
    * (s.face_df[f].vol - s.face_df[f].prefered_vol)
TwiceContractile(s, f) ==
    s.face_df[f].contractility * s.face_df[f].perimeter
                               * s.face_df[f].perimeter
TwiceAnchor(s, e) ==
    s.edge_df[e].anchor_elasticity * s.edge_df[e].length
    * s.edge_df[e].length * s.edge_df[e].is_anchor

\* The domain of the i-th returned term and twice its value on a row.
TermDomain(s, i) ==
    CASE i = 1 -> LiveEdges(s)
      [] i = 2 -> LiveFaces(s)
      [] i = 3 -> LiveFaces(s)
      [] i = 4 -> 1..Ne(s)

TwiceTerm(s, i, r) ==
    CASE i = 1 -> TwiceTension(s, r)
      [] i = 2 -> TwiceElastic(s, r)
      [] i = 3 -> TwiceContractile(s, r)
      [] i = 4 -> TwiceAnchor(s, r)

NTerms(s) == IF "is_anchor" \in s.edge_cols THEN 4 ELSE 3

FullOutputReturned == pc = "energy_full" /\ out.kind = "components"

AllRows(terms) ==
    [i \in 1..Len(terms) |-> QSumSeq(terms[i].rows)]

\* C8 (as claimed): full_output returns one value per energy term, each the
\* term summed over its domain and divided by nrj_norm_factor, and their
\* sum is the scalar of default mode.
C8_OneSummedValuePerTerm ==
    FullOutputReturned =>
        /\ Len(out.terms) = NTerms(sheet)
        /\ \A i \in 1..Len(out.terms) :
              /\ Len(out.terms[i].rows) = 1
              /\ QEq(out.terms[i].rows[1],
                     Q(SetSum(TermDomain(sheet, i),
                              [r \in TermDomain(sheet, i) |->
                                  TwiceTerm(sheet, i, r)]),
                       2 * sheet.settings.nrj_norm_factor))
        /\ QEq(QSumSeq(AllRows(out.terms)), compute_energy(sheet, FALSE).q)

\* C8 (amended): full_output returns one series per energy term (tension,
\* volumetric elastic, contractile, and anchor when the half-edge table has
\* is_anchor), holding one entry per row of the term's domain, in row
\* order, each the row's energy divided by nrj_norm_factor; the entries of
\* all the series add up to the scalar of default mode.
C8_OneSeriesPerTerm ==
    FullOutputReturned =>
        /\ Len(out.terms) = NTerms(sheet)
        /\ \A i \in 1..Len(out.terms) :
              /\ Len(out.terms[i].rows) = Cardinality(TermDomain(sheet, i))
              /\ \A k \in 1..Len(out.terms[i].rows) :
                    QEq(out.terms[i].rows[k],
                        Q(TwiceTerm(sheet, i, NthOf(TermDomain(sheet, i), k)),
                          2 * sheet.settings.nrj_norm_factor))
        /\ QEq(QSumSeq(AllRows(out.terms)), compute_energy(sheet, FALSE).q)

\* C8 witness: a full_output call that returned four series, the tension
\* series with several rows, under a norm factor other than 1.
C8_Witness ==
    /\ FullOutputReturned
    /\ Len(out.terms) = 4
    /\ Len(out.terms[1].rows) > 1
    /\ Len(out.terms[2].rows) = 1
    /\ sheet.settings.nrj_norm_factor # 1
    /\ out.terms[1].rows[1].num # out.terms[1].rows[2].num

\* What default mode puts on vertex v, times the factor it was divided by,
\* for a given attribution of the contractile and anchor terms.
Attributed(s, v, contractile, anchor) ==
    QScale(s.vert_df[v].is_active,
           QAdd(Q(SetSum(EdgesFrom(s, v), TensionTerm(s))
                  - SetSum(EdgesTo(s, v), TensionTerm(s)), 2),
                QInt(contractile + anchor + ElasticOn(s, v))))

\* C9 (as claimed): contractile and anchor terms are attributed as
\* sum-as-source plus sum-as-target, tension as (source - target) / 2.
C9_ContractileAndAnchorAdded ==
    GradientReturned =>
        \A v \in 1..Nv(sheet) :
            QEq(QScale(sheet.settings.nrj_norm_factor, out.rows[v]),
                Attributed(sheet, v,
                    SetSum(EdgesFrom(sheet, v), ContractileTerm(sheet))
                    + SetSum(EdgesTo(sheet, v), ContractileTerm(sheet)),
                    SetSum(EdgesFrom(sheet, v), AnchorTerm(sheet))
                    + SetSum(EdgesTo(sheet, v), AnchorTerm(sheet))))

\* C9 (amended): in default mode the contractile term is attributed to each
\* vertex as sum-as-source minus sum-as-target (not halved), the anchor
\* term as sum-as-source only, and the tension term as (sum as source minus
\* sum as target) / 2.
C9_ContractileSubtractedAnchorAtSource ==
    GradientReturned =>
        \A v \in 1..Nv(sheet) :
            QEq(QScale(sheet.settings.nrj_norm_factor, out.rows[v]),
                Attributed(sheet, v,
                    SetSum(EdgesFrom(sheet, v), ContractileTerm(sheet))
                    - SetSum(EdgesTo(sheet, v), ContractileTerm(sheet)),
                    SetSum(EdgesFrom(sheet, v), AnchorTerm(sheet))))

\* C9 witness: a default-mode gradient on a sheet with the anchor columns,
\* where an active vertex is the target of half-edges whose contractile and
\* anchor terms do not vanish.
C9_Witness ==
    /\ GradientReturned
    /\ AnchorCols \subseteq sheet.edge_cols
    /\ \E v \in 1..Nv(sheet) :
          /\ sheet.vert_df[v].is_active = 1
          /\ SetSum(EdgesTo(sheet, v), ContractileTerm(sheet)) # 0
          /\ SetSum(EdgesTo(sheet, v), AnchorTerm(sheet)) # 0
          /\ out.rows[v].num # 0

DeadFaces(s) == {f \in 1..Nf(s) : s.face_df[f].is_alive = 0}

\* s and t are the same sheet but for attributes of dead faces and of
\* half-edges owned by dead faces.
DifferOnlyInDead(s, t) ==
    /\ s # t
    /\ s.vert_df = t.vert_df
    /\ s.edge_cols = t.edge_cols
    /\ s.settings = t.settings
    /\ \A f \in 1..Nf(s) :
          /\ s.face_df[f].is_alive = t.face_df[f].is_alive
          /\ s.face_df[f] # t.face_df[f] => f \in DeadFaces(s)
    /\ \A e \in 1..Ne(s) :
          /\ s.edge_df[e].srce = t.edge_df[e].srce
          /\ s.edge_df[e].trgt = t.edge_df[e].trgt
          /\ s.edge_df[e].face = t.edge_df[e].face
          /\ s.edge_df[e] # t.edge_df[e] => s.edge_df[e].face \in DeadFaces(s)

\* The columns the anchor term reads.
AnchorInputs == {"length", "is_anchor", "anchor_elasticity"}

SameAnchorInputs(s, t) ==
    \A e \in 1..Ne(s) : \A c \in AnchorInputs :
        s.edge_df[e][c] = t.edge_df[e][c]

SameTotal(a, b) ==
    /\ a.kind = b.kind
    /\ a.kind = "scalar" => QEq(a.q, b.q)

\* C10 (as claimed): two sheets that differ only in attributes of dead
\* faces or of half-edges owned by dead faces (length, line_tension,
\* is_anchor, anchor_elasticity included) have the same total energy.
C10_DeadFacesExcluded ==
    [][DifferOnlyInDead(sheet, sheet') =>
          SameTotal(compute_energy(sheet, FALSE),
                    compute_energy(sheet', FALSE))]_vars

\* C10 (amended): two sheets that differ only in attributes of dead faces
\* or of half-edges owned by dead faces have the same total energy when the
\* half-edge table has no is_anchor column or the sheets agree on the
\* anchor term's inputs (length, is_anchor, anchor_elasticity) of every
\* half-edge: the anchor term is summed over all half-edges, those of dead
\* faces included.
C10_DeadFacesExcludedButForAnchor ==
    [][(/\ DifferOnlyInDead(sheet, sheet')
        /\ \/ "is_anchor" \notin sheet.edge_cols
           \/ SameAnchorInputs(sheet, sheet')) =>
          SameTotal(compute_energy(sheet, FALSE),
                    compute_energy(sheet', FALSE))]_vars

\* C10 witness: the total energy was computed, with the anchor term, on a
\* sheet with a live face and a dead face whose face row and half-edge
\* rows carry edited attributes.
C10_Witness ==
    /\ pc = "energy"
    /\ out.kind = "scalar"
    /\ AnchorCols \subseteq sheet.edge_cols
    /\ LiveFaces(sheet) # {}
    /\ \E e \in 1..Ne(sheet) :
          /\ sheet.edge_df[e].face \in DeadFaces(sheet)
          /\ sheet.edge_df[e].line_tension # BaseEdge(e).line_tension

-----------------------------------------------------------------------------
(* SheetModel.dimentionalize                                               *)

MaxKv == 2
MaxRootA0 == 2
MaxH0 == 2

\* The dimensionless specs handed to dimentionalize: a dict of dicts.  The
\* prefered area is a perfect square, so that A0 ** 1.5 is an integer.
FullModSpecs ==
    { [face |-> [vol_elasticity |-> Kv, prefered_area |-> r * r,
                 prefered_height |-> h0, contractility |-> gamma],
       edge |-> [line_tension |-> lbda],
       settings |-> << >>]
      : Kv \in -1..MaxKv, r \in 0..MaxRootA0, h0 \in -1..MaxH0,
        gamma \in {1, 2}, lbda \in {-1, 1} }

\* d without the key k
Without(d, k) == [x \in (DOMAIN d) \ {k} |-> d[x]]

ModSpecsInputs ==
    FullModSpecs
    \cup { [m EXCEPT !.edge = [line_tension |-> m.edge.line_tension,
                               anchor_elasticity |-> 1]] : m \in FullModSpecs }
    \cup { [m EXCEPT !.face = Without(m.face, k)] :
              m \in FullModSpecs,
              k \in {"vol_elasticity", "prefered_area", "prefered_height",
                     "contractility"} }
    \cup { [m EXCEPT !.edge = Without(m.edge, "line_tension")] :
              m \in FullModSpecs }
    \cup { Without(m, "settings") : m \in FullModSpecs }

\* The square root of a perfect square.
Sqrt(a) == CHOOSE r \in 0..a : r * r = a

\* A0 ** 1.5
Pow15(a) == a * Sqrt(a)

\* The first key the function looks up and does not find, if any.
MissingKey(m) ==
    LET face == <<"vol_elasticity", "prefered_area", "prefered_height",
                  "contractility">>
        absent == SelectSeq(face, LAMBDA k : k \notin DOMAIN m.face)
    IN  IF absent # << >> THEN absent[1]
        ELSE IF "line_tension" \notin DOMAIN m.edge THEN "line_tension"
        ELSE IF "settings" \notin DOMAIN m THEN "settings"
        ELSE "none"

\* The two normalisation factors written to dim_mod_specs['settings'].
dimentionalize_settings(Kv, A0, h0) ==
    [grad_norm_factor |-> Kv * Pow15(A0) * h0 * h0,
     nrj_norm_factor |-> Kv * (A0 * h0) * (A0 * h0)]

dimentionalize(m) ==
    IF MissingKey(m) # "none"
    THEN Raised(MissingKey(m))
    ELSE LET Kv == m.face.vol_elasticity
             A0 == m.face.prefered_area
             h0 == m.face.prefered_height
             gamma == m.face.contractility
             lbda == m.edge.line_tension
             face == [vol_elasticity |-> Kv, prefered_area |-> A0,
                      prefered_height |-> h0,
                      contractility |-> gamma * Kv * A0 * h0 * h0,
                      prefered_vol |-> A0 * h0]
             edge == IF "anchor_elasticity" \in DOMAIN m.edge
                     THEN [line_tension |-> lbda * Kv * Pow15(A0) * h0 * h0,
                           anchor_elasticity |->
                               m.edge.anchor_elasticity * Kv * A0 * h0 * h0]
                     ELSE [line_tension |-> lbda * Kv * Pow15(A0) * h0 * h0]
         IN  [kind |-> "specs", face |-> face, edge |-> edge,
              settings |-> dimentionalize_settings(Kv, A0, h0)]

InitDim ==
    /\ mod_specs \in ModSpecsInputs
    /\ dim_out = NoResult
    /\ pc = "setup"
    /\ out = NoResult
    /\ sheet = BaseSheet({}, CHOOSE st \in SettingsChoices :
                                 st.nrj_norm_factor = 1,
                         [f \in 1..FixtureNf |-> 1])
    /\ NoHistory
    /\ NoTopology

\* dimentionalize(mod_specs) is called; its argument is left as it was.
Dimentionalize ==
    /\ pc = "setup"
    /\ dim_out' = dimentionalize(mod_specs)
    /\ pc' = "dim"
    /\ UNCHANGED <<mod_specs, sheet, out, history_vars, topology_vars>>

NextDim == Dimentionalize

SpecDim == InitDim /\ [][NextDim]_vars

\* The factors as the claim derives them from the input.
DerivedGradFactor(m) ==
    m.face.vol_elasticity * Pow15(m.face.prefered_area)
    * m.face.prefered_height * m.face.prefered_height

DerivedNrjFactor(m) ==
    m.face.vol_elasticity
    * (m.face.prefered_area * m.face.prefered_height)
    * (m.face.prefered_area * m.face.prefered_height)

\* C4 (as claimed): dimentionalize raises on any input whose derived
\* grad_norm_factor or nrj_norm_factor is zero or negative, and never
\* returns a spec whose normalisation factors are not strictly positive.
C4_NonPositiveFactorsRejected ==
    (pc = "dim" /\ MissingKey(mod_specs) = "none") =>
        /\ (DerivedGradFactor(mod_specs) <= 0
            \/ DerivedNrjFactor(mod_specs) <= 0) => dim_out.kind = "error"
        /\ dim_out.kind = "specs" =>
              /\ dim_out.settings.grad_norm_factor > 0
              /\ dim_out.settings.nrj_norm_factor > 0

-----------------------------------------------------------------------------
(* History: recording and retrieving time series of a sheet's datasets.    *)
(* A dataset is a sequence of rows; a row carries its index label (idx)    *)
(* and its columns.  The datasets recorded here have no column named       *)
(* time_id of their own, so record stamps every row with History.time_id.  *)

Elements == {"vert", "face", "edge"}

\* The columns of the sheet's datasets, and those the caller may ask for.
SheetCols == {"val", "other"}

RequestedCols == { {"val"}, {"val", "absent"} }

SheetRow(i, v) == [idx |-> i, cols |-> [val |-> v, other |-> 0]]

\* The tables a dataset of the sheet goes through.
Tables ==
    { << >>, <<SheetRow(1, 0)>>, <<SheetRow(1, 1), SheetRow(2, 0)>> }

MaxTime == 2

MaxUpdates == 2

\* The table every dataset holds when the History is constructed.
FirstTable == <<SheetRow(1, 0)>>

\* _filter_columns: the history's columns the dataset lacks are dropped
_filter_columns(cols_hist, cols_in) ==
    IF ~(cols_hist \subseteq cols_in)
    THEN cols_hist \cap cols_in
    ELSE cols_hist

\* sheet.datasets[element][cols].reset_index(drop=False), with the column
\* time_id set to t
Stamped(table, cols, t) ==
    [k \in 1..Len(table) |->
        [idx |-> table[k].idx,
         cols |-> [c \in cols |-> table[k].cols[c]],
         time_id |-> t]]

\* History.__init__
History__init__(datasets, extra_cols) ==
    LET columns == [e \in Elements |->
                       _filter_columns(extra_cols, SheetCols)]
    IN  [sheet |-> datasets,
         time_id |-> 0,
         columns |-> columns,
         datasets |-> [e \in Elements |->
                          Stamped(datasets[e], columns[e], 0)],
         time_index |-> << >>,
         time_stamps |-> << >>]

\* History.record
record(h, to_record, time_stamp) ==
    LET t == h.time_id + 1
    IN  [h EXCEPT
           !.time_id = t,
           !.time_index = Append(@, t),
           !.time_stamps = IF time_stamp # "None"
                           THEN Append(@, time_stamp) ELSE @,
           !.datasets = [e \in Elements |->
                           IF e \in to_record
                           THEN @[e] \o Stamped(h.sheet[e], h.columns[e], t)
                           ELSE @[e]]]

\* _retrieve: the rows stamped with the time of the last row whose time is
\* at most time_id; indexing an empty selection raises
_retrieve(dset, time_id) ==
    LET times == SelectSeq(dset, LAMBDA r : r.time_id <= time_id)
    IN  IF times = << >> THEN Raised("IndexError")
        ELSE LET t == times[Len(times)].time_id
             IN  [kind |-> "rows",
                  rows |-> SelectSeq(dset, LAMBDA r : r.time_id = t)]

\* History.retrieve: df.set_index(element)[cols] of every dataset
retrieve(h, index) ==
    LET got == [e \in Elements |-> _retrieve(h.datasets[e], index)]
    IN  IF \E e \in Elements : got[e].kind = "error"
        THEN Raised("IndexError")
        ELSE [kind |-> "datasets",
              datasets |-> [e \in Elements |->
                  [k \in 1..Len(got[e].rows) |->
                      [idx |-> got[e].rows[k].idx,
                       cols |-> [c \in h.columns[e] |->
                                    got[e].rows[k].cols[c]]]]]]

\* An entry of record_log: the table a dataset held when it was recorded.
Logged(table) == [recorded |-> TRUE, table |-> table]

NotRecorded == [recorded |-> FALSE, table |-> << >>]

InitHistory ==
    /\ \E extra_cols \in RequestedCols :
          history = History__init__([e \in Elements |-> FirstTable],
                                    extra_cols)
    /\ record_log = <<[e \in Elements |-> Logged(FirstTable)]>>
    /\ n_updates = 0
    /\ retrieved = NoResult
    /\ sheet = BaseSheet({}, CHOOSE st \in SettingsChoices :
                                 st.nrj_norm_factor = 1,
                         [f \in 1..FixtureNf |-> 1])
    /\ pc = "setup"
    /\ out = NoResult
    /\ mod_specs = NoSpecs
    /\ dim_out = NoResult
    /\ NoTopology

\* The simulation rewrites a dataset of the sheet the History refers to
\* (rows added by a division, removed with their faces, values updated).
UpdateSheet(e, table) ==
    /\ n_updates < MaxUpdates
    /\ history.sheet[e] # table
    /\ history' = [history EXCEPT !.sheet[e] = table]
    /\ n_updates' = n_updates + 1
    /\ retrieved' = NoResult
    /\ UNCHANGED <<record_log, model_vars, topology_vars>>

Record(to_record, time_stamp) ==
    /\ history.time_id < MaxTime
    /\ history' = record(history, to_record, time_stamp)
    /\ record_log' = Append(record_log,
                            [e \in Elements |->
                                IF e \in to_record
                                THEN Logged(history.sheet[e])
                                ELSE NotRecorded])
    /\ retrieved' = NoResult
    /\ UNCHANGED <<n_updates, model_vars, topology_vars>>

Retrieve(index) ==
    /\ retrieved' = [index |-> index, at |-> history.time_id,
                     result |-> retrieve(history, index)]
    /\ UNCHANGED <<history, record_log, n_updates, model_vars, topology_vars>>

NextHistory ==
    \/ \E e \in Elements : \E table \in Tables : UpdateSheet(e, table)
    \/ \E to_record \in SUBSET Elements :
           \E time_stamp \in {"None", "stamp"} : Record(to_record, time_stamp)
    \/ \E index \in 0..MaxTime : Retrieve(index)

SpecHistory == InitHistory /\ [][NextHistory]_vars

\* The time id of the most recent record call, at most t, that included
\* dataset e (0, the construction, when there is none).
LastRecorded(e, t) ==
    LET ts == {k \in 0..t : k < Len(record_log) /\ record_log[k + 1][e].recorded}
    IN  CHOOSE k \in ts : \A j \in ts : j <= k

\* The rows of a table restricted to the history's columns.
Restricted(table, cols) ==
    [k \in 1..Len(table) |->
        [idx |-> table[k].idx, cols |-> [c \in cols |-> table[k].cols[c]]]]

\* What the claim says retrieve(t) returns for dataset e.
SnapshotAt(e, t) ==
    Restricted(record_log[LastRecorded(e, t) + 1][e].table,
               history.columns[e])

\* C6 (as claimed): retrieve(t) returns for every dataset exactly the rows,
\* restricted to the history's columns, that the dataset had at the most
\* recent record call with time id at most t that included it, or at
\* construction when there is none.
C6_RetrieveReturnsLastSnapshot ==
    retrieved # NoResult =>
        /\ retrieved.result.kind = "datasets"
        /\ \A e \in Elements :
              retrieved.result.datasets[e] = SnapshotAt(e, retrieved.index)

\* Every dataset had at least one row whenever it was recorded.
NoEmptyRecord ==
    \A k \in 1..Len(record_log) : \A e \in Elements :
        record_log[k][e].recorded => record_log[k][e].table # << >>

\* C6 holds of the datasets that were never recorded empty.
C6_HoldsWithoutEmptyRecords ==
    (retrieved # NoResult /\ NoEmptyRecord) =>
        /\ retrieved.result.kind = "datasets"
        /\ \A e \in Elements :
              retrieved.result.datasets[e] = SnapshotAt(e, retrieved.index)

\* Later record calls leave retrieve(t) as it was for every earlier t.
C6_EarlierTimesStable ==
    [][\A t \in 0..history.time_id :
          retrieve(history, t)' = retrieve(history, t)]_vars

-----------------------------------------------------------------------------
(* The topology operators type1_transition and cell_division.  The mesh    *)
(* is the vertex count, the half-edge table (srce, trgt, face) and the     *)
(* face table (is_alive).                                                  *)

\* A central quadrilateral (face 1, vertices 1..4) surrounded by four
\* quadrilaterals (faces 2..5) reaching the border vertices 5..8.  The
\* border segments 5-6, 6-7, 7-8, 8-5 have no opposite half-edge.
MeshFixtureEdges ==
    << <<1, 2, 1>>, <<2, 3, 1>>, <<3, 4, 1>>, <<4, 1, 1>>,
       <<2, 1, 2>>, <<1, 5, 2>>, <<5, 6, 2>>, <<6, 2, 2>>,
       <<3, 2, 3>>, <<2, 6, 3>>, <<6, 7, 3>>, <<7, 3, 3>>,
       <<4, 3, 4>>, <<3, 7, 4>>, <<7, 8, 4>>, <<8, 4, 4>>,
       <<1, 4, 5>>, <<4, 8, 5>>, <<8, 5, 5>>, <<5, 1, 5>> >>

HalfEdge(s, t, f) == [srce |-> s, trgt |-> t, face |-> f]

MeshFixture(alive) ==
    [Nv |-> Cardinality({MeshFixtureEdges[e][1] : e \in DOMAIN MeshFixtureEdges}),
     edge_df |-> [e \in DOMAIN MeshFixtureEdges |->
                     HalfEdge(MeshFixtureEdges[e][1], MeshFixtureEdges[e][2],
                              MeshFixtureEdges[e][3])],
     face_df |-> [f \in DOMAIN alive |-> [is_alive |-> alive[f]]]]

MaxTopoOps == 2

FaceEdges(m, f) == {e \in DOMAIN m.edge_df : m.edge_df[e].face = f}

Sides(m, f) == Cardinality(FaceEdges(m, f))

\* The half-edges running the other way along half-edge e (none on the
\* border).
Opposites(m, e) ==
    {o \in DOMAIN m.edge_df :
        /\ m.edge_df[o].srce = m.edge_df[e].trgt
        /\ m.edge_df[o].trgt = m.edge_df[e].srce}

Opposite(m, e) == CHOOSE o \in Opposites(m, e) : TRUE

\* The half-edge of the same face leaving the vertex e arrives at.
NextInFace(m, e) ==
    CHOOSE n \in FaceEdges(m, m.edge_df[e].face) :
        m.edge_df[n].srce = m.edge_df[e].trgt

RECURSIVE Between(_, _, _)
\* The half-edges of a face from e on, up to stop (left out).
Between(m, e, stop) ==
    IF e = stop THEN {}
    ELSE {e} \cup Between(m, NextInFace(m, e), stop)

Refused(m) == [status |-> "error", mesh |-> m]

Done(m) == [status |-> "ok", mesh |-> m]

\* type1_transition's precondition on half-edge e01: it borders two live
\* faces, neither of which would fall below 3 sides.
T1Allowed(m, e01) ==
    /\ Opposites(m, e01) # {}
    /\ LET b == m.edge_df[e01].face
           d == m.edge_df[Opposite(m, e01)].face
       IN  /\ m.face_df[b].is_alive = 1
           /\ m.face_df[d].is_alive = 1
           /\ b # d
           /\ Sides(m, b) >= 4
           /\ Sides(m, d) >= 4

\* The two faces that gain a side exist: the half-edges that follow the
\* target edge around its two faces are not on the border.
T1NeighboursExist(m, e01) ==
    LET e10 == Opposite(m, e01)
        e13 == NextInFace(m, e01)
        e05 == NextInFace(m, e10)
    IN  Opposites(m, e13) # {} /\ Opposites(m, e05) # {}

\* Mutant of T1Relinked: the target half-edge and its opposite keep their
\* faces.
T1Relinked_target_kept(m, e01) ==
    LET e10 == Opposite(m, e01)
        vert0 == m.edge_df[e01].srce
        vert1 == m.edge_df[e01].trgt
        e13 == NextInFace(m, e01)
        e05 == NextInFace(m, e10)
        vert3 == m.edge_df[e13].trgt
        vert5 == m.edge_df[e05].trgt
        e31 == Opposite(m, e13)
        e50 == Opposite(m, e05)
    IN  [m EXCEPT !.edge_df =
            [e \in DOMAIN m.edge_df |->
                CASE e = e13 -> [m.edge_df[e] EXCEPT !.srce = vert0]
                  [] e = e31 -> [m.edge_df[e] EXCEPT !.trgt = vert0]
                  [] e = e50 -> [m.edge_df[e] EXCEPT !.trgt = vert1]
                  [] e = e05 -> [m.edge_df[e] EXCEPT !.srce = vert1]
                  [] OTHER -> m.edge_df[e]]]

\* The relinking: faces b and d (either side of the target edge 0-1) give
\* the edge up, faces a and c (at its two ends) receive it.
T1Relinked(m, e01) ==
    LET e10 == Opposite(m, e01)
        vert0 == m.edge_df[e01].srce
        vert1 == m.edge_df[e01].trgt
        face_b == m.edge_df[e01].face
        face_d == m.edge_df[e10].face
        e13 == NextInFace(m, e01)
        e05 == NextInFace(m, e10)
        vert3 == m.edge_df[e13].trgt
        vert5 == m.edge_df[e05].trgt
        e31 == Opposite(m, e13)
        e50 == Opposite(m, e05)
        face_c == m.edge_df[e31].face
        face_a == m.edge_df[e50].face
    IN  [m EXCEPT !.edge_df =
            [e \in DOMAIN m.edge_df |->
                CASE e = e01 -> HalfEdge(vert0, vert1, face_c)
                  [] e = e10 -> HalfEdge(vert1, vert0, face_a)
                  [] e = e13 -> HalfEdge(vert0, vert3, face_b)
                  [] e = e31 -> HalfEdge(vert3, vert0, face_c)
                  [] e = e50 -> HalfEdge(vert5, vert1, face_a)
                  [] e = e05 -> HalfEdge(vert1, vert5, face_d)
                  [] OTHER -> m.edge_df[e]]]

\* Mutant of type1_transition: the side counts are validated after the
\* target half-edge was handed to the other face.
type1_transition_edits_first(m, e01) ==
    IF Opposites(m, e01) = {} THEN Refused(m)
    ELSE IF T1Allowed(m, e01) /\ T1NeighboursExist(m, e01)
         THEN Done(T1Relinked(m, e01))
         ELSE Refused([m EXCEPT !.edge_df[e01].face =
                          m.edge_df[Opposite(m, e01)].face])

type1_transition(m, e01) ==
    IF T1Allowed(m, e01) /\ T1NeighboursExist(m, e01)
    THEN Done(T1Relinked(m, e01))
    ELSE Refused(m)

\* cell_division's precondition on face f.
DivisionAllowed(m, f) ==
    m.face_df[f].is_alive = 1 /\ Sides(m, f) >= 4

\* The division axes of face f: two boundary half-edges with no vertex in
\* common, neither on the border.
Axes(m, f) ==
    {ax \in FaceEdges(m, f) \X FaceEdges(m, f) :
        /\ {m.edge_df[ax[1]].srce, m.edge_df[ax[1]].trgt}
             \cap {m.edge_df[ax[2]].srce, m.edge_df[ax[2]].trgt} = {}
        /\ Opposites(m, ax[1]) # {}
        /\ Opposites(m, ax[2]) # {}}

\* Face f cut along the axis (ea, eb): a vertex is inserted on each of the
\* two edges, a new face takes the boundary from the first new vertex to
\* the second, the rest stays with f.
Divided(m, f, ea, eb) ==
    LET oa == Opposite(m, ea)
        ob == Opposite(m, eb)
        va == m.edge_df[ea].srce
        vb == m.edge_df[ea].trgt
        vc == m.edge_df[eb].srce
        vd == m.edge_df[eb].trgt
        m1 == m.Nv + 1
        m2 == m.Nv + 2
        f2 == Len(m.face_df) + 1
        moved == Between(m, NextInFace(m, ea), eb)
        kept == [e \in DOMAIN m.edge_df |->
                    CASE e = ea -> HalfEdge(va, m1, f)
                      [] e = oa -> HalfEdge(vb, m1, m.edge_df[oa].face)
                      [] e = eb -> HalfEdge(vc, m2, f2)
                      [] e = ob -> HalfEdge(vd, m2, m.edge_df[ob].face)
                      [] e \in moved -> [m.edge_df[e] EXCEPT !.face = f2]
                      [] OTHER -> m.edge_df[e]]
    IN  [Nv |-> m.Nv + 2,
         edge_df |-> kept \o << HalfEdge(m1, vb, f2),
                                HalfEdge(m1, va, m.edge_df[oa].face),
                                HalfEdge(m2, vd, f),
                                HalfEdge(m2, vc, m.edge_df[ob].face),
                                HalfEdge(m1, m2, f),
                                HalfEdge(m2, m1, f2) >>,
         face_df |-> Append(m.face_df, m.face_df[f])]

\* Mutant of cell_division: the first cut edge's opposite is left whole.
cell_division_one_sided(m, f, ax) ==
    IF DivisionAllowed(m, f) /\ ax \in Axes(m, f)
    THEN LET d == Divided(m, f, ax[1], ax[2])
         IN  Done([d EXCEPT !.edge_df = SubSeq(@, 1, Len(@) - 1)])
    ELSE Refused(m)

cell_division(m, f, ax) ==
    IF DivisionAllowed(m, f) /\ ax \in Axes(m, f)
    THEN Done(Divided(m, f, ax[1], ax[2]))
    ELSE Refused(m)

InitTopology ==
    /\ \E dead \in 0..5 :
          mesh = MeshFixture([f \in 1..5 |-> IF f = dead THEN 0 ELSE 1])
    /\ topo_out = NoResult
    /\ n_topo = 0
    /\ NoHistory
    /\ sheet = BaseSheet({}, CHOOSE st \in SettingsChoices :
                                 st.nrj_norm_factor = 1,
                         [f \in 1..FixtureNf |-> 1])
    /\ pc = "setup"
    /\ out = NoResult
    /\ mod_specs = NoSpecs
    /\ dim_out = NoResult

Returned(op, arg, res) ==
    /\ topo_out' = [op |-> op, arg |-> arg, status |-> res.status,
                    before |-> mesh]
    /\ mesh' = res.mesh
    /\ n_topo' = IF res.status = "ok" THEN n_topo + 1 ELSE n_topo
    /\ UNCHANGED <<model_vars, history_vars>>

Type1Transition(e) ==
    /\ n_topo < MaxTopoOps
    /\ Returned("type1_transition", e, type1_transition(mesh, e))

\* The division axis is the operator's own choice; a face with no axis to
\* choose from is handed to it all the same.
CellDivision(f) ==
    /\ n_topo < MaxTopoOps
    /\ \E ax \in IF DivisionAllowed(mesh, f) /\ Axes(mesh, f) # {}
                 THEN Axes(mesh, f) ELSE {<<0, 0>>} :
           Returned("cell_division", f, cell_division(mesh, f, ax))

NextTopology ==
    \/ \E e \in DOMAIN mesh.edge_df : Type1Transition(e)
    \/ \E f \in DOMAIN mesh.face_df : CellDivision(f)

SpecTopology == InitTopology /\ [][NextTopology]_vars

RECURSIVE Orbit(_, _, _)
\* The half-edges met in k steps around a face, starting from e.
Orbit(m, e, k) ==
    IF k = 0 THEN {}
    ELSE {e} \cup Orbit(m, NextInFace(m, e), k - 1)

\* The boundary half-edges of face f form one closed directed cycle of at
\* least 3 sides: each one's target is the source of exactly one other,
\* and following them from any one goes through all.
SingleClosedCycle(m, f) ==
    LET E == FaceEdges(m, f)
    IN  /\ Cardinality(E) >= 3
        /\ \A e \in E :
              /\ Cardinality({n \in E : m.edge_df[n].srce = m.edge_df[e].trgt}) = 1
              /\ Cardinality({n \in E : m.edge_df[n].trgt = m.edge_df[e].srce}) = 1
        /\ \A e \in E : Orbit(m, e, Cardinality(E)) = E

DivisionCalled == topo_out # NoResult /\ topo_out.op = "cell_division"

T1Called == topo_out # NoResult /\ topo_out.op = "type1_transition"

\* C1: cell_division on a live face with at least 4 sides adds exactly 1
\* face, 2 vertices and 6 half-edges, and the face keeping the original id
\* and the new face each have their boundary half-edges in one closed
\* directed cycle of at least 3 sides.
C1_DivisionCountsAndCycles ==
    (/\ DivisionCalled
     /\ topo_out.before.face_df[topo_out.arg].is_alive = 1
     /\ Sides(topo_out.before, topo_out.arg) >= 4) =>
        /\ topo_out.status = "ok"
        /\ Len(mesh.face_df) = Len(topo_out.before.face_df) + 1
        /\ mesh.Nv = topo_out.before.Nv + 2
        /\ Len(mesh.edge_df) = Len(topo_out.before.edge_df) + 6
        /\ SingleClosedCycle(mesh, topo_out.arg)
        /\ SingleClosedCycle(mesh, Len(mesh.face_df))

\* C1 witness: a five-sided face (made by an earlier flip) was divided.
C1_Witness ==
    /\ DivisionCalled
    /\ topo_out.status = "ok"
    /\ Sides(topo_out.before, topo_out.arg) = 5
    /\ Len(mesh.face_df) = 6

\* The faces on either side of half-edge e.
Bordering(m, e) ==
    {m.edge_df[e].face} \cup {m.edge_df[o].face : o \in Opposites(m, e)}

FlipLeavesTooFewSides(m, e) ==
    \E f \in Bordering(m, e) : Sides(m, f) - 1 < 3

FlipNotBetweenTwoLiveFaces(m, e) ==
    \/ Cardinality(Bordering(m, e)) # 2
    \/ \E f \in Bordering(m, e) : m.face_df[f].is_alive = 0

DivisionOfDeadOrSmallFace(m, f) ==
    m.face_df[f].is_alive = 0 \/ Sides(m, f) < 4

PreconditionViolated ==
    \/ /\ T1Called
       /\ \/ FlipLeavesTooFewSides(topo_out.before, topo_out.arg)
          \/ FlipNotBetweenTwoLiveFaces(topo_out.before, topo_out.arg)
    \/ /\ DivisionCalled
       /\ DivisionOfDeadOrSmallFace(topo_out.before, topo_out.arg)

\* C5: a type1_transition or cell_division called with its precondition
\* violated fails with a structural error, and whenever either fails the
\* vertex, half-edge and face tables are exactly what they were before the
\* call.
C5_RefusedCallsLeaveMeshUntouched ==
    /\ PreconditionViolated => topo_out.status = "error"
    /\ (topo_out # NoResult /\ topo_out.status = "error") =>
          mesh = topo_out.before

\* C5 witness: a flip was refused, after an earlier operation, because a
\* bordering triangle would have lost a side.
C5_Witness ==
    /\ T1Called
    /\ topo_out.status = "error"
    /\ n_topo > 0
    /\ Cardinality(Bordering(topo_out.before, topo_out.arg)) = 2
    /\ \A f \in Bordering(topo_out.before, topo_out.arg) :
          topo_out.before.face_df[f].is_alive = 1
    /\ FlipLeavesTooFewSides(topo_out.before, topo_out.arg)

=============================================================================
